---- MODULE Spec2Model ----
(***************************************************************************)
(* Gesture-Snake: the game simulation (game.py, SnakeGame), the position   *)
(* smoother (hand_tracker.py, HandTracker) and the main loop               *)
(* (snake_game.py, SnakeGameApp.run).  One loop iteration ("tick") is the  *)
(* sequence of calls detect_hand / get_smoothed_position, the pause        *)
(* gesture block, update_direction, update, _handle_keyboard_input; pc     *)
(* is the position of the loop between those calls.                        *)
(***************************************************************************)
EXTENDS Integers, Sequences, FiniteSets, TLC

\* ---------------------------------------------------------------- bounds
GridCols == 4
GridRows == 4
MaxFrames == 3
HoldTicks == 100
MaxArrivals == 6
HandStep == 10
SmallCols == 4
SmallRows == 1

\* ------------------------------------------------------------- constants
GRID_SIZE == 20
WINDOW_WIDTH == GridCols * GRID_SIZE
WINDOW_HEIGHT == GridRows * GRID_SIZE
FOOD_POINTS == 10
GESTURE_SMOOTHING_WINDOW == 5
DIRECTION_THRESHOLD == 30
PAUSE_COOLDOWN == 30
WEBCAM_WIDTH == 640
WEBCAM_HEIGHT == 480
CONFIG_WINDOW_WIDTH == 800
CONFIG_WINDOW_HEIGHT == 600

NONE == <<>>

VARIABLES
    window,
    state, score, high_score, frame_count, speed_multiplier,
    snake, direction, next_direction, food,
    position_history, is_detected,
    running, pause_gesture_cooldown,
    high_score_file,
    pc,
    tick_start, toggled, ticks_since_toggle,
    tick, toggle_ticks, arrivals, armed_in

game == <<state, score, high_score, frame_count, speed_multiplier,
          snake, direction, next_direction, food>>
config == <<window>>
tracker == <<position_history>>
disk == <<high_score_file>>
locals == <<is_detected>>
observed == <<tick_start, toggled, ticks_since_toggle>>
clock == <<tick, toggle_ticks, arrivals, armed_in>>
vars == <<config, game, tracker, disk, locals, running, pause_gesture_cooldown, pc, observed, clock>>

\* ------------------------------------------------------------ enumerations
Direction == {"UP", "DOWN", "LEFT", "RIGHT"}
GameState == {"MENU", "PLAYING", "PAUSED", "GAME_OVER"}

value_y_up(d) ==
    CASE d = "UP" -> <<0, 1>>
      [] d = "DOWN" -> <<0, -1>>
      [] d = "LEFT" -> <<-1, 0>>
      [] d = "RIGHT" -> <<1, 0>>

value(d) ==
    CASE d = "UP" -> <<0, -1>>
      [] d = "DOWN" -> <<0, 1>>
      [] d = "LEFT" -> <<-1, 0>>
      [] d = "RIGHT" -> <<1, 0>>

abs(n) == IF n < 0 THEN -n ELSE n

\* ----------------------------------------------------------------- config
\* window is <<WINDOW_WIDTH, WINDOW_HEIGHT>> of the GameConfig in use
get_grid_dimensions == <<window[1] \div GRID_SIZE, window[2] \div GRID_SIZE>>
grid_cols == get_grid_dimensions[1]
grid_rows == get_grid_dimensions[2]
Cells == (0 .. grid_cols - 1) \X (0 .. grid_rows - 1)

InSnake_without_tail(c, sn) == \E i \in 1 .. Len(sn) - 1 : sn[i] = c

InSnake_head_only(c, sn) == Len(sn) > 0 /\ sn[1] = c

InSnake(c, sn) == \E i \in 1 .. Len(sn) : sn[i] = c

\* ------------------------------------------------------------- SnakeGame
start_x == grid_cols \div 2
start_y == grid_rows \div 2
reset_snake_rightward ==
    << <<start_x, start_y>>, <<start_x + 1, start_y>>, <<start_x + 2, start_y>> >>

\* reset_game, lines 64-68
reset_snake == << <<start_x, start_y>>, <<start_x - 1, start_y>>, <<start_x - 2, start_y>> >>

start_game(st) == IF st = "MENU" THEN "PLAYING" ELSE st

toggle_pause_any(st) ==
    IF st = "PLAYING" THEN "PAUSED" ELSE "PLAYING"

toggle_pause(st) ==
    IF st = "PLAYING" THEN "PAUSED"
    ELSE IF st = "PAUSED" THEN "PLAYING"
    ELSE st

spawn_accepts_any(c, sn) == TRUE

spawn_accepts_off_head(c, sn) == sn[1] # c

\* _spawn_food: one iteration of the rejection loop accepts cell c
spawn_accepts(c, sn) == ~InSnake(c, sn)

update_direction_tie_horizontal(hand_pos, st, sn, nd) ==
    IF hand_pos = NONE \/ Len(sn) = 0 THEN nd
    ELSE IF st # "PLAYING" THEN nd
    ELSE LET head == sn[1]
             head_screen == <<head[1] * GRID_SIZE + GRID_SIZE \div 2,
                              head[2] * GRID_SIZE + GRID_SIZE \div 2>>
             dx == hand_pos[1] - head_screen[1]
             dy == hand_pos[2] - head_screen[2]
         IN IF abs(dx) > DIRECTION_THRESHOLD \/ abs(dy) > DIRECTION_THRESHOLD
            THEN IF abs(dx) >= abs(dy)
                 THEN (IF dx > 0 THEN "RIGHT" ELSE "LEFT")
                 ELSE (IF dy > 0 THEN "DOWN" ELSE "UP")
            ELSE nd

update_direction_any_state(hand_pos, st, sn, nd) ==
    IF hand_pos = NONE \/ Len(sn) = 0 THEN nd
    ELSE LET head == sn[1]
             head_screen == <<head[1] * GRID_SIZE + GRID_SIZE \div 2,
                              head[2] * GRID_SIZE + GRID_SIZE \div 2>>
             dx == hand_pos[1] - head_screen[1]
             dy == hand_pos[2] - head_screen[2]
         IN IF abs(dx) > DIRECTION_THRESHOLD \/ abs(dy) > DIRECTION_THRESHOLD
            THEN IF abs(dx) > abs(dy)
                 THEN (IF dx > 0 THEN "RIGHT" ELSE "LEFT")
                 ELSE (IF dy > 0 THEN "DOWN" ELSE "UP")
            ELSE nd

\* update_direction: the pending direction after the call
update_direction(hand_pos, st, sn, nd) ==
    IF hand_pos = NONE \/ Len(sn) = 0 THEN nd
    ELSE IF st # "PLAYING" THEN nd
    ELSE LET head == sn[1]
             head_screen == <<head[1] * GRID_SIZE + GRID_SIZE \div 2,
                              head[2] * GRID_SIZE + GRID_SIZE \div 2>>
             dx == hand_pos[1] - head_screen[1]
             dy == hand_pos[2] - head_screen[2]
         IN IF abs(dx) > DIRECTION_THRESHOLD \/ abs(dy) > DIRECTION_THRESHOLD
            THEN IF abs(dx) > abs(dy)
                 THEN (IF dx > 0 THEN "RIGHT" ELSE "LEFT")
                 ELSE (IF dy > 0 THEN "DOWN" ELSE "UP")
            ELSE nd

commit_direction_unchecked(d, nd) == nd

\* update, lines 144-147: the committed direction for this move
commit_direction(d, nd) ==
    IF <<value(nd)[1] * (-1), value(nd)[2] * (-1)>> # value(d) THEN nd ELSE d

hits_wall_off_by_one(new_head) ==
    new_head[1] < 0 \/ new_head[1] > grid_cols \/
    new_head[2] < 0 \/ new_head[2] > grid_rows

hits_wall_far_sides_only(new_head) ==
    new_head[1] >= grid_cols \/ new_head[2] >= grid_rows

\* update, lines 158-160
hits_wall(new_head) ==
    new_head[1] < 0 \/ new_head[1] >= grid_cols \/
    new_head[2] < 0 \/ new_head[2] >= grid_rows

moved_snake_no_pop(sn, new_head, fd) == <<new_head>> \o sn

\* update, lines 171-179: the body after the move
moved_snake(sn, new_head, fd) ==
    IF new_head = fd THEN <<new_head>> \o sn
    ELSE <<new_head>> \o SubSeq(sn, 1, Len(sn) - 1)

eaten_score_bonus(sc) == sc + FOOD_POINTS + 1

eaten_score_minus(sc) == sc - FOOD_POINTS

\* update, line 175: the score after the head reached the food
eaten_score(sc) == sc + FOOD_POINTS

\* high_score.txt: <<n>> when the file reads as the integer n, UNREADABLE when
\* it is missing, empty or not a number
UNREADABLE == <<>>

_load_high_score_unguarded(f) == IF f = UNREADABLE THEN -1 ELSE f[1]

\* _load_high_score: any failure of open/read/int gives 0
_load_high_score(f) == IF f = UNREADABLE THEN 0 ELSE f[1]

\* _update_high_score, lines 383-387: the file after the call; open(.., 'w')
\* fails and leaves the file, or truncates it and the write then fails, or the
\* new high score is written
saved_file(sc, hs, f, save) ==
    IF sc > hs
    THEN CASE save = "ok" -> <<sc>>
           [] save = "open_fails" -> f
           [] save = "write_fails" -> UNREADABLE
    ELSE f

_update_high_score_last(sc, hs) == sc

\* _update_high_score, lines 381-382: the in-memory high score after the call
_update_high_score(sc, hs) == IF sc > hs THEN sc ELSE hs

\* speed multiplier in hundredths: 1.0 + snake_length * 0.05
_increase_speed(sn) == 100 + Len(sn) * 5

\* ----------------------------------------------------------- HandTracker
\* deque(maxlen=W).append
history_append(h, p) ==
    IF Len(h) >= GESTURE_SMOOTHING_WINDOW
    THEN Append(SubSeq(h, Len(h) - GESTURE_SMOOTHING_WINDOW + 2, Len(h)), p)
    ELSE Append(h, p)

RECURSIVE SumCoord(_, _)
SumCoord(h, k) == IF h = <<>> THEN 0 ELSE h[1][k] + SumCoord(Tail(h), k)

get_smoothed_position_zero(h) ==
    IF h = <<>> THEN <<0, 0>>
    ELSE <<SumCoord(h, 1) \div Len(h), SumCoord(h, 2) \div Len(h)>>

get_smoothed_position_window_div(h) ==
    IF h = <<>> THEN NONE
    ELSE <<SumCoord(h, 1) \div GESTURE_SMOOTHING_WINDOW,
           SumCoord(h, 2) \div GESTURE_SMOOTHING_WINDOW>>

get_smoothed_position(h) ==
    IF h = <<>> THEN NONE
    ELSE <<SumCoord(h, 1) \div Len(h), SumCoord(h, 2) \div Len(h)>>

\* ---------------------------------------------------------- SnakeGameApp
pause_gesture_half_window(is_fist, cd) ==
    LET fire == is_fist /\ cd <= 0
        cd1 == IF fire THEN PAUSE_COOLDOWN \div 2 ELSE cd
    IN [toggle |-> fire, cooldown |-> IF cd1 > 0 THEN cd1 - 1 ELSE cd1]

pause_gesture_no_floor(is_fist, cd) ==
    LET fire == is_fist /\ cd <= 0
        cd1 == IF fire THEN PAUSE_COOLDOWN ELSE cd
    IN [toggle |-> fire, cooldown |-> cd1 - 1]

pause_gesture_elif(is_fist, cd) ==
    IF cd > 0 THEN [toggle |-> FALSE, cooldown |-> cd - 1]
    ELSE IF is_fist THEN [toggle |-> TRUE, cooldown |-> PAUSE_COOLDOWN]
    ELSE [toggle |-> FALSE, cooldown |-> cd]

pause_gesture_early(is_fist, cd) ==
    LET fire == is_fist /\ cd <= 1
        cd1 == IF fire THEN PAUSE_COOLDOWN ELSE cd
    IN [toggle |-> fire, cooldown |-> IF cd1 > 0 THEN cd1 - 1 ELSE cd1]

\* run, lines 51-57: [toggle |-> toggle_pause was invoked, cooldown |-> value after]
pause_gesture(is_fist, cd) ==
    LET fire == is_fist /\ cd <= 0
        cd1 == IF fire THEN PAUSE_COOLDOWN ELSE cd
    IN [toggle |-> fire, cooldown |-> IF cd1 > 0 THEN cd1 - 1 ELSE cd1]

loop_next_intent_first(p) ==
    CASE p = "detect" -> "direction"
      [] p = "direction" -> "pause"
      [] p = "pause" -> "update"
      [] p = "update" -> "key"

loop_next_update_first(p) ==
    CASE p = "detect" -> "direction"
      [] p = "direction" -> "update"
      [] p = "update" -> "pause"
      [] p = "pause" -> "key"

\* run, lines 44-86: the order of the calls of one loop iteration
loop_next(p) ==
    CASE p = "detect" -> "pause"
      [] p = "pause" -> "direction"
      [] p = "direction" -> "update"
      [] p = "update" -> "key"

\* ---------------------------------------------------------------- inputs
Origin == <<0, 0>>
BottomLeft == <<0, WEBCAM_HEIGHT - 1>>
HandInputs == {NONE, Origin, BottomLeft}
Keys == {"none", "space", "q"}
InitialHighScores == {0}
InitialFiles == {UNREADABLE, <<0>>, <<FOOD_POINTS>>}
SaveOutcomes == {"ok", "open_fails", "write_fails"}

\* hand positions 10 pixels apart along the top edge of the camera frame
SmoothHands == {<<0, 0>>, <<10, 0>>, <<20, 0>>, <<30, 0>>, <<40, 0>>, <<50, 0>>}

\* hand positions at offsets 0, T and T + 1 (each sign, each axis) from the pixel
\* centre of the head cell of the reset snake
IntentOffsets == {0, DIRECTION_THRESHOLD, DIRECTION_THRESHOLD + 1,
                  -DIRECTION_THRESHOLD, -(DIRECTION_THRESHOLD + 1)}
IntentHands ==
    {<<start_x * GRID_SIZE + GRID_SIZE \div 2 + ox,
       start_y * GRID_SIZE + GRID_SIZE \div 2 + oy>> : ox \in IntentOffsets, oy \in IntentOffsets}

TickStart == [state |-> state, snake |-> snake, food |-> food, score |-> score,
              direction |-> direction, next_direction |-> next_direction,
              frame_count |-> frame_count,
              position_history |-> position_history]

\* ------------------------------------------------------------------ Init
\* the state after SnakeGame.__init__ and HandTracker.__init__ with a window of
\* w = <<width, height>> pixels
InitWith(w, files) ==
    /\ window = w
    /\ high_score_file \in files
    /\ state = "MENU"
    /\ score = 0
    /\ high_score = _load_high_score(high_score_file)
    /\ frame_count = 0
    /\ speed_multiplier = 100
    /\ snake = reset_snake
    /\ direction = "RIGHT"
    /\ next_direction = "RIGHT"
    /\ food \in {c \in Cells : spawn_accepts(c, reset_snake)}
    /\ position_history = <<>>
    /\ is_detected = FALSE
    /\ running = TRUE
    /\ pause_gesture_cooldown = 0
    /\ pc = "detect"
    /\ tick_start = TickStart
    /\ toggled = FALSE
    /\ ticks_since_toggle = -1
    /\ tick = 0
    /\ toggle_ticks = <<>>
    /\ arrivals = <<>>
    /\ armed_in = "never"

Init == InitWith(<<WINDOW_WIDTH, WINDOW_HEIGHT>>, {<<h>> : h \in InitialHighScores})

\* --------------------------------------------------------------- actions
\* run, line 36-39: the camera read fails and the loop breaks
ReadFail ==
    /\ pc = "detect"
    /\ UNCHANGED <<config, disk>>
    /\ pc' = "done"
    /\ UNCHANGED <<game, tracker, locals, running, pause_gesture_cooldown, observed>>

\* run, lines 44-45: detect_hand(frame); hand is the clamped index-tip position or NONE
DetectHand(hand) ==
    /\ pc = "detect"
    /\ UNCHANGED <<config, disk>>
    /\ IF hand # NONE
       THEN /\ position_history' = history_append(position_history, hand)
            /\ is_detected' = TRUE
       ELSE /\ is_detected' = FALSE
            /\ UNCHANGED position_history
    /\ tick_start' = TickStart
    /\ toggled' = FALSE
    /\ ticks_since_toggle' =
          IF ticks_since_toggle >= 0 /\ ticks_since_toggle < PAUSE_COOLDOWN
          THEN ticks_since_toggle + 1 ELSE ticks_since_toggle
    /\ pc' = loop_next("detect")
    /\ UNCHANGED <<game, running, pause_gesture_cooldown>>

\* run, lines 48-57: detect_fist_gesture(frame) and the pause cooldown
PauseGesture(is_fist) ==
    /\ pc = "pause"
    /\ UNCHANGED <<config, disk>>
    /\ LET r == pause_gesture(is_fist, pause_gesture_cooldown)
       IN /\ state' = IF r.toggle THEN toggle_pause(state) ELSE state
          /\ pause_gesture_cooldown' = r.cooldown
          /\ toggled' = r.toggle
          /\ ticks_since_toggle' = IF r.toggle THEN 0 ELSE ticks_since_toggle
    /\ pc' = loop_next("pause")
    /\ UNCHANGED <<score, high_score, frame_count, speed_multiplier, snake,
                   direction, next_direction, food, tracker, locals, running, tick_start>>

\* run, lines 60-61
UpdateDirection ==
    /\ pc = "direction"
    /\ UNCHANGED <<config, disk>>
    /\ LET smoothed_pos == get_smoothed_position(position_history)
       IN next_direction' =
             IF smoothed_pos # NONE
             THEN update_direction(smoothed_pos, state, snake, next_direction)
             ELSE next_direction
    /\ pc' = loop_next("direction")
    /\ UNCHANGED <<state, score, high_score, frame_count, speed_multiplier, snake,
                   direction, food, tracker, locals, running, pause_gesture_cooldown, observed>>

\* run, line 63: SnakeGame.update up to the call of _spawn_food; save is the
\* outcome of writing high_score.txt should _update_high_score attempt it
UpdateSaving(save) ==
    /\ pc = "update"
    /\ UNCHANGED config
    /\ IF state # "PLAYING"
       THEN /\ pc' = loop_next("update")
            /\ UNCHANGED <<game, disk>>
       ELSE /\ frame_count < MaxFrames
            /\ frame_count' = frame_count + 1
            /\ direction' = commit_direction(direction, next_direction)
            /\ LET head == snake[1]
                   new_head == <<head[1] + value(direction')[1],
                                 head[2] + value(direction')[2]>>
               IN IF hits_wall(new_head) \/ InSnake(new_head, snake)
                  THEN /\ state' = "GAME_OVER"
                       /\ high_score' = _update_high_score(score, high_score)
                       /\ high_score_file' = saved_file(score, high_score, high_score_file, save)
                       /\ pc' = loop_next("update")
                       /\ UNCHANGED <<snake, score, food, speed_multiplier>>
                  ELSE IF new_head = food
                  THEN /\ snake' = moved_snake(snake, new_head, food)
                       /\ score' = eaten_score(score)
                       /\ pc' = "spawn_update"
                       /\ UNCHANGED <<state, high_score, food, speed_multiplier, disk>>
                  ELSE /\ snake' = moved_snake(snake, new_head, food)
                       /\ pc' = loop_next("update")
                       /\ UNCHANGED <<state, score, high_score, food, speed_multiplier, disk>>
            /\ UNCHANGED next_direction
    /\ UNCHANGED <<tracker, locals, running, pause_gesture_cooldown, observed>>

\* update() on a disk that takes the write
Update == UpdateSaving("ok")

\* _spawn_food: one iteration of `while True` samples cell c; on acceptance the
\* caller (update, or reset_game) runs to its end
SpawnFood(c) ==
    /\ pc \in {"spawn_update", "spawn_reset"}
    /\ UNCHANGED <<config, disk>>
    /\ IF spawn_accepts(c, snake)
       THEN /\ food' = c
            /\ IF pc = "spawn_update"
               THEN /\ speed_multiplier' = _increase_speed(snake)
                    /\ pc' = loop_next("update")
                    /\ UNCHANGED <<state, score, frame_count>>
               ELSE /\ score' = 0
                    /\ frame_count' = 0
                    /\ speed_multiplier' = 100
                    /\ state' = "MENU"
                    /\ pc' = "start"
       ELSE UNCHANGED <<food, speed_multiplier, state, score, frame_count, pc>>
    /\ UNCHANGED <<high_score, snake, direction, next_direction, tracker, locals,
                   running, pause_gesture_cooldown, observed>>

\* _handle_keyboard_input, then the loop condition `while self.running`
Keyboard(key) ==
    /\ pc = "key"
    /\ UNCHANGED <<config, disk>>
    /\ IF key = "q"
       THEN /\ running' = FALSE
            /\ pc' = "done"
            /\ UNCHANGED game
       ELSE IF key = "space" /\ state = "MENU"
       THEN /\ state' = start_game(state)
            /\ pc' = "detect"
            /\ UNCHANGED <<score, high_score, frame_count, speed_multiplier, snake,
                           direction, next_direction, food, running>>
       ELSE IF key = "space" /\ state = "GAME_OVER"
       THEN /\ snake' = reset_snake
            /\ direction' = "RIGHT"
            /\ next_direction' = "RIGHT"
            /\ pc' = "spawn_reset"
            /\ UNCHANGED <<state, score, high_score, frame_count, speed_multiplier,
                           food, running>>
       ELSE /\ pc' = "detect"
            /\ UNCHANGED <<game, running>>
    /\ UNCHANGED <<tracker, pause_gesture_cooldown, ticks_since_toggle>>
    /\ tick_start' = TickStart'
    /\ toggled' = FALSE
    /\ is_detected' = FALSE

\* _handle_keyboard_input, line 136: start_game() after reset_game() returned
StartAfterReset ==
    /\ pc = "start"
    /\ UNCHANGED <<config, disk>>
    /\ state' = start_game(state)
    /\ pc' = "detect"
    /\ UNCHANGED <<score, high_score, frame_count, speed_multiplier, snake,
                   direction, next_direction, food, tracker, locals, running,
                   pause_gesture_cooldown, observed>>

\* -------------------------------------------------------- specifications
\* Spec: steering.  The hand is absent, at Origin or at BottomLeft; no fist is
\* shown; the keys and the food samples are free.
Next ==
    \/ ReadFail /\ UNCHANGED clock
    \/ \E hand \in HandInputs : DetectHand(hand) /\ UNCHANGED clock
    \/ PauseGesture(FALSE) /\ UNCHANGED clock
    \/ UpdateDirection /\ UNCHANGED clock
    \/ Update /\ UNCHANGED clock
    \/ \E c \in Cells : SpawnFood(c) /\ UNCHANGED clock
    \/ \E key \in Keys : Keyboard(key) /\ UNCHANGED clock
    \/ StartAfterReset /\ UNCHANGED clock

Spec == Init /\ [][Next]_vars

\* SpecPause: the pause gesture.  The fist flag, the keys and the food samples
\* are free; the hand stays at BottomLeft.
NextPause ==
    \/ ReadFail /\ UNCHANGED clock
    \/ DetectHand(BottomLeft) /\ UNCHANGED clock
    \/ \E is_fist \in BOOLEAN : PauseGesture(is_fist) /\ UNCHANGED clock
    \/ UpdateDirection /\ UNCHANGED clock
    \/ Update /\ UNCHANGED clock
    \/ \E c \in Cells : SpawnFood(c) /\ UNCHANGED clock
    \/ \E key \in Keys : Keyboard(key) /\ UNCHANGED clock
    \/ StartAfterReset /\ UNCHANGED clock

SpecPause == Init /\ [][NextPause]_vars

\* SpecRight: no hand, no fist; SPACE starts (and restarts) the game.
NextRight ==
    \/ DetectHand(NONE) /\ UNCHANGED clock
    \/ PauseGesture(FALSE) /\ UNCHANGED clock
    \/ UpdateDirection /\ UNCHANGED clock
    \/ Update /\ UNCHANGED clock
    \/ \E c \in Cells : SpawnFood(c) /\ UNCHANGED clock
    \/ \E key \in {"none", "space"} : Keyboard(key) /\ UNCHANGED clock
    \/ StartAfterReset /\ UNCHANGED clock

SpecRight == Init /\ [][NextRight]_vars

\* SpecHold: a fist is held in every tick from the first on, no key is pressed;
\* tick numbers the loop iterations and toggle_ticks lists the ticks in which
\* toggle_pause() was invoked.
NextHold ==
    \/ /\ tick < HoldTicks
       /\ DetectHand(BottomLeft)
       /\ tick' = tick + 1
       /\ UNCHANGED <<toggle_ticks, arrivals, armed_in>>
    \/ /\ PauseGesture(TRUE)
       /\ toggle_ticks' = IF toggled' THEN Append(toggle_ticks, tick) ELSE toggle_ticks
       /\ UNCHANGED <<tick, arrivals, armed_in>>
    \/ UpdateDirection /\ UNCHANGED clock
    \/ Update /\ UNCHANGED clock
    \/ Keyboard("none") /\ UNCHANGED clock

SpecHold == Init /\ [][NextHold]_vars

\* SpecIntent: one hand position near the head is detected once, at any tick;
\* the smoothed position stays there while SPACE starts and restarts the game.
NextIntent ==
    \/ \E hand \in IntentHands : position_history = <<>> /\ DetectHand(hand) /\ UNCHANGED clock
    \/ DetectHand(NONE) /\ UNCHANGED clock
    \/ PauseGesture(FALSE) /\ UNCHANGED clock
    \/ UpdateDirection /\ UNCHANGED clock
    \/ Update /\ UNCHANGED clock
    \/ \E c \in Cells : SpawnFood(c) /\ UNCHANGED clock
    \/ \E key \in {"none", "space"} : Keyboard(key) /\ UNCHANGED clock
    \/ StartAfterReset /\ UNCHANGED clock

SpecIntent == Init /\ [][NextIntent]_vars

\* SpecSmooth: the tracker alone.  In each tick no hand is detected or one of the
\* SmoothHands positions is, at most HandStep pixels from the position detected
\* before it, while the game waits in MENU with its food at the origin; arrivals
\* lists the detected positions in order.
InitSmooth == Init /\ food = Origin

NextSmooth ==
    \/ \E hand \in SmoothHands :
          /\ Len(arrivals) < MaxArrivals
          /\ (arrivals # <<>> => abs(hand[1] - arrivals[Len(arrivals)][1]) <= HandStep)
          /\ DetectHand(hand)
          /\ arrivals' = Append(arrivals, hand)
          /\ UNCHANGED <<tick, toggle_ticks, armed_in>>
    \/ DetectHand(NONE) /\ UNCHANGED clock
    \/ PauseGesture(FALSE) /\ UNCHANGED clock
    \/ UpdateDirection /\ UNCHANGED clock
    \/ Update /\ UNCHANGED clock
    \/ Keyboard("none") /\ UNCHANGED clock

SpecSmooth == InitSmooth /\ [][NextSmooth]_vars

\* SpecFill: a window of SmallCols x SmallRows cells, which the snake can fill.
\* The food samples of _spawn_food are fair: a sample that the rejection loop
\* accepts is drawn eventually whenever one exists.
InitSmall ==
    InitWith(<<SmallCols * GRID_SIZE, SmallRows * GRID_SIZE>>, {<<h>> : h \in InitialHighScores})

NextFill ==
    \/ \E hand \in HandInputs : DetectHand(hand) /\ UNCHANGED clock
    \/ PauseGesture(FALSE) /\ UNCHANGED clock
    \/ UpdateDirection /\ UNCHANGED clock
    \/ Update /\ UNCHANGED clock
    \/ \E c \in Cells : SpawnFood(c) /\ UNCHANGED clock
    \/ \E key \in {"none", "space"} : Keyboard(key) /\ UNCHANGED clock
    \/ StartAfterReset /\ UNCHANGED clock

FairSamples == WF_vars(\E c \in Cells : SpawnFood(c) /\ UNCHANGED clock)

SpecFill == InitSmall /\ [][NextFill]_vars /\ FairSamples

\* SpecPersist: high_score.txt is unreadable or holds a number at launch, and
\* every write of it succeeds or fails; the hand is absent or at BottomLeft.
InitPersist == InitWith(<<WINDOW_WIDTH, WINDOW_HEIGHT>>, InitialFiles)

NextPersist ==
    \/ \E hand \in {NONE, BottomLeft} : DetectHand(hand) /\ UNCHANGED clock
    \/ PauseGesture(FALSE) /\ UNCHANGED clock
    \/ UpdateDirection /\ UNCHANGED clock
    \/ \E save \in SaveOutcomes : UpdateSaving(save) /\ UNCHANGED clock
    \/ \E c \in Cells : SpawnFood(c) /\ UNCHANGED clock
    \/ \E key \in Keys : Keyboard(key) /\ UNCHANGED clock
    \/ StartAfterReset /\ UNCHANGED clock

SpecPersist == InitPersist /\ [][NextPersist]_vars

\* SpecReach: the window of the GameConfig as shipped (40 x 30 cells).  A game is
\* PLAYING, past the frames the model follows move by move, with its 3-cell
\* snake lying in a row and the head on one of the ReachHeads cells; one tick
\* detects the hand in a corner of the camera frame and derives the intent.
ReachHeads == {0, 1, 2, 29, 30, 39} \X {0, 1, 2, 21, 22, 29}
ReachHands == {0, WEBCAM_WIDTH - 1} \X {0, WEBCAM_HEIGHT - 1}

InitReach ==
    /\ window = <<CONFIG_WINDOW_WIDTH, CONFIG_WINDOW_HEIGHT>>
    /\ high_score_file = <<0>>
    /\ state = "PLAYING"
    /\ score = 0
    /\ high_score = 0
    /\ frame_count = MaxFrames
    /\ speed_multiplier = 100
    /\ \E h \in ReachHeads :
          IF h[1] >= 2
          THEN /\ snake = <<h, <<h[1] - 1, h[2]>>, <<h[1] - 2, h[2]>>>>
               /\ direction = "RIGHT"
               /\ next_direction = "RIGHT"
          ELSE /\ snake = <<h, <<h[1] + 1, h[2]>>, <<h[1] + 2, h[2]>>>>
               /\ direction = "LEFT"
               /\ next_direction = "LEFT"
    /\ food = <<start_x, start_y>>
    /\ position_history = <<>>
    /\ is_detected = FALSE
    /\ running = TRUE
    /\ pause_gesture_cooldown = 0
    /\ pc = "detect"
    /\ tick_start = TickStart
    /\ toggled = FALSE
    /\ ticks_since_toggle = -1
    /\ tick = 0
    /\ toggle_ticks = <<>>
    /\ arrivals = <<>>
    /\ armed_in = "never"

NextReach ==
    \/ \E hand \in ReachHands : DetectHand(hand) /\ UNCHANGED clock
    \/ PauseGesture(FALSE) /\ UNCHANGED clock
    \/ UpdateDirection /\ UNCHANGED clock

SpecReach == InitReach /\ [][NextReach]_vars

\* SpecArm: the fist flag is free in every tick and SPACE starts and restarts
\* the game; the hand stays at BottomLeft.  armed_in is the GameState in which
\* toggle_pause() was last invoked ("never" before the first invocation).
NextArm ==
    \/ DetectHand(BottomLeft) /\ UNCHANGED clock
    \/ \E is_fist \in BOOLEAN :
          /\ PauseGesture(is_fist)
          /\ armed_in' = IF toggled' THEN state ELSE armed_in
          /\ UNCHANGED <<tick, toggle_ticks, arrivals>>
    \/ UpdateDirection /\ UNCHANGED clock
    \/ Update /\ UNCHANGED clock
    \/ \E c \in Cells : SpawnFood(c) /\ UNCHANGED clock
    \/ \E key \in {"none", "space"} : Keyboard(key) /\ UNCHANGED clock
    \/ StartAfterReset /\ UNCHANGED clock

SpecArm == Init /\ [][NextArm]_vars

\* SpecTurn: steering and pausing together.  The hand is detected once, at any
\* tick, at Origin or at BottomLeft, and the smoothed position stays there; the
\* fist flag is free in every tick; SPACE starts and restarts the game.
NextTurn ==
    \/ \E hand \in HandInputs :
          /\ (hand # NONE => position_history = <<>>)
          /\ DetectHand(hand)
          /\ UNCHANGED clock
    \/ \E is_fist \in BOOLEAN : PauseGesture(is_fist) /\ UNCHANGED clock
    \/ UpdateDirection /\ UNCHANGED clock
    \/ Update /\ UNCHANGED clock
    \/ \E c \in Cells : SpawnFood(c) /\ UNCHANGED clock
    \/ \E key \in {"none", "space"} : Keyboard(key) /\ UNCHANGED clock
    \/ StartAfterReset /\ UNCHANGED clock

SpecTurn == Init /\ [][NextTurn]_vars

\* ================================================================ claims
Opposite(d) ==
    CASE d = "UP" -> "DOWN"
      [] d = "DOWN" -> "UP"
      [] d = "LEFT" -> "RIGHT"
      [] d = "RIGHT" -> "LEFT"

InSpawn == pc \in {"spawn_update", "spawn_reset"}

\* C1: whenever no _spawn_food call is in progress (after reset_game, after every
\* update(), in every GameState) the food cell is not one of the snake's cells.
C1_FoodNotOnSnake ==
    ~InSpawn => \A i \in 1 .. Len(snake) : snake[i] # food

\* a respawn after eating has completed
C1_Witness ==
    /\ pc = "key" /\ state = "PLAYING"
    /\ Len(snake) = 4 /\ score = FOOD_POINTS
    /\ tick_start.food = snake[1]

\* C2: an update() in PLAYING never commits the opposite of the committed
\* direction; with the pending direction the exact opposite, the committed
\* direction is unchanged.
C2_NoReverse ==
    [][(pc = "update" /\ state = "PLAYING") =>
          /\ direction' # Opposite(direction)
          /\ (next_direction = Opposite(direction) => direction' = direction)]_vars

\* an update() has run with the opposite intent pending and a turn behind it
C2_Witness ==
    /\ pc = "key" /\ state = "PLAYING" /\ frame_count >= 2
    /\ next_direction = Opposite(direction)
    /\ direction # "RIGHT"

\* C3: while PLAYING every step leaves the snake length unchanged or one larger;
\* update() makes it one larger exactly when the new head cell is the food cell.
C3_LengthStep ==
    [][state = "PLAYING" =>
          /\ Len(snake') \in {Len(snake), Len(snake) + 1}
          /\ (pc = "update" =>
                LET new_head == <<snake[1][1] + value(direction')[1],
                                  snake[1][2] + value(direction')[2]>>
                IN (Len(snake') = Len(snake) + 1) <=> (new_head = food))]_vars

\* the snake has grown twice and then moved without eating
C3_Witness ==
    /\ pc = "key" /\ state = "PLAYING"
    /\ Len(snake) = 5 /\ tick_start.score = score /\ frame_count = 3

StepsToEdge == grid_cols - (grid_cols \div 2)

\* C4: with the direction left at RIGHT the game is PLAYING through the first
\* cols - startCol - 1 moves and GAME_OVER on move number cols - startCol,
\* wherever the food is.
C4_RightEdge ==
    /\ (state = "PLAYING" => frame_count < StepsToEdge)
    /\ (state = "GAME_OVER" => frame_count = StepsToEdge)
    /\ ((state = "GAME_OVER" /\ ~InSpawn) => snake[1][1] = grid_cols - 1)
    /\ ((state = "PLAYING" /\ pc = "key") => snake[1] = <<start_x + frame_count, start_y>>)

\* the game ended on the right edge after the snake ate on its way
C4_Witness ==
    /\ state = "GAME_OVER" /\ pc = "key"
    /\ frame_count = StepsToEdge
    /\ score = FOOD_POINTS

\* C5 as claimed: a fist held for 100 ticks from cooldown 0 invokes toggle_pause()
\* exactly 3 times, at ticks 1, 31 and 61.
C5_ThreeToggles ==
    (tick = HoldTicks /\ pc = "detect") => toggle_ticks = <<1, 31, 61>>

\* C5 amended: a fist held for 100 ticks from cooldown 0 invokes toggle_pause()
\* exactly 4 times, at ticks 1, 31, 61 and 91 (one per 30-tick window).
C5_FourToggles ==
    /\ \A i \in 1 .. Len(toggle_ticks) : toggle_ticks[i] = 1 + (i - 1) * PAUSE_COOLDOWN
    /\ ((tick >= 100 /\ pc # "pause") => toggle_ticks = <<1, 31, 61, 91>>)

\* the hundredth tick has run to its end
C5_Witness ==
    tick = 100 /\ pc = "detect" /\ Len(toggle_ticks) = 4

\* C6: a tick that starts with cooldown > 0 invokes no toggle and leaves the
\* GameState to the pause block unchanged; a toggle is the first one or comes
\* at least a full window (30 ticks) after the toggle before it.
C6_OnePerWindow ==
    [][pc = "pause" =>
          /\ (pause_gesture_cooldown > 0 => ~toggled' /\ state' = state)
          /\ (toggled' => ticks_since_toggle \in {-1, PAUSE_COOLDOWN})]_vars

\* a second toggle: the fist resumed a game that a fist had paused
C6_Witness ==
    /\ toggled /\ pc = "direction"
    /\ tick_start.state = "PAUSED" /\ state = "PLAYING"

\* C7: GameState changes only MENU -> PLAYING (start_game), PLAYING <-> PAUSED
\* (toggle_pause in the pause block), PLAYING -> GAME_OVER (update) and
\* GAME_OVER -> MENU (reset_game).
C7_Transitions ==
    [][state' # state =>
          \/ state = "MENU" /\ state' = "PLAYING" /\ pc \in {"key", "start"}
          \/ state = "PLAYING" /\ state' = "PAUSED" /\ pc = "pause"
          \/ state = "PAUSED" /\ state' = "PLAYING" /\ pc = "pause"
          \/ state = "PLAYING" /\ state' = "GAME_OVER" /\ pc = "update"
          \/ state = "GAME_OVER" /\ state' = "MENU" /\ pc = "spawn_reset"]_vars

\* reset_game has returned from a game that was paused and resumed before it ended
C7_Witness ==
    /\ pc = "start" /\ state = "MENU"
    /\ ticks_since_toggle >= 0 /\ pause_gesture_cooldown > 0

SmoothedNow == get_smoothed_position(position_history)

\* C8 as claimed: whether the intent is derived depends on the GameState before
\* the tick's pause toggle.
C8_IntentBeforePause ==
    (pc = "update" /\ toggled) =>
        next_direction = update_direction(SmoothedNow, tick_start.state, snake,
                                          tick_start.next_direction)

\* C8 amended: the pause block runs before update_direction and both before
\* update(): on a tick where the fist pauses a PLAYING game no intent is
\* recorded, on a tick where the fist resumes a PAUSED game the intent of that
\* tick's smoothed position is recorded.
C8_PauseBeforeIntent ==
    /\ (toggled => pc \in {"direction", "update", "spawn_update", "key"})
    /\ ((pc = "update" /\ toggled /\ tick_start.state = "PLAYING") =>
            next_direction = tick_start.next_direction /\ state = "PAUSED")
    /\ ((pc = "update" /\ toggled /\ tick_start.state = "PAUSED") =>
            next_direction = update_direction(SmoothedNow, "PLAYING", snake,
                                              tick_start.next_direction))

\* a resuming tick recorded a new intent
C8_Witness ==
    /\ pc = "update" /\ toggled /\ tick_start.state = "PAUSED"
    /\ next_direction # tick_start.next_direction

\* a pausing tick whose position would have given a new intent
C8_PauseWitness ==
    /\ pc = "update" /\ toggled /\ tick_start.state = "PLAYING"
    /\ update_direction(SmoothedNow, "PLAYING", snake, next_direction) # next_direction

PausedThisTick == toggled /\ tick_start.state = "PLAYING"
ResumedThisTick == toggled /\ tick_start.state = "PAUSED"

PauseTickFrozen ==
    PausedThisTick =>
        /\ state = "PAUSED"
        /\ snake = tick_start.snake
        /\ food = tick_start.food
        /\ score = tick_start.score
        /\ frame_count = tick_start.frame_count

ResumeTickMoved ==
    (ResumedThisTick /\ pc = "key") =>
        /\ frame_count = tick_start.frame_count + 1
        /\ \/ state = "GAME_OVER" /\ snake = tick_start.snake
           \/ /\ state = "PLAYING"
              /\ snake[1] = <<tick_start.snake[1][1] + value(direction)[1],
                              tick_start.snake[1][2] + value(direction)[2]>>

\* C9: on a tick where the fist pauses the game, snake, food and score stay as
\* they were at the start of the tick up to the end of the tick; on a tick where
\* the fist resumes it, update() has moved the snake one cell or ended the game.
C9_PauseStopsResumeMoves ==
    /\ [](PauseTickFrozen /\ ResumeTickMoved)
    /\ [][(pc = "key" /\ PausedThisTick) =>
              (state' = "PAUSED" /\ snake' = snake /\ food' = food /\ score' = score)]_vars

\* a resuming tick moved the snake
C9_Witness ==
    /\ pc = "key" /\ toggled /\ tick_start.state = "PAUSED"
    /\ state = "PLAYING" /\ snake # tick_start.snake

\* C10 as claimed: a tick without a detected hand leaves the committed direction
\* as it was, whatever the position history holds.
C10_NoHandKeepsDirection ==
    (pc = "key" /\ ~is_detected) => direction = tick_start.direction

\* C10 amended: a tick without a detected hand and with an empty position
\* history leaves the committed direction after update() as it was at the start
\* of the tick.
C10_NoHandNoHistory ==
    (pc = "key" /\ ~is_detected /\ tick_start.position_history = <<>>) =>
        /\ position_history = <<>>
        /\ direction = tick_start.direction
        /\ next_direction = tick_start.next_direction

\* update() moved the snake on a tick with no hand and no history
C10_Witness ==
    /\ pc = "key" /\ ~is_detected /\ position_history = <<>>
    /\ state = "PLAYING" /\ frame_count = tick_start.frame_count + 1

Adjacent(a, b) == abs(a[1] - b[1]) + abs(a[2] - b[2]) = 1

\* C11: in every reachable state, GAME_OVER included, the snake has at least 3
\* cells, holds no cell twice, every two consecutive cells differ by one unit
\* step along one axis, and every cell lies inside the grid.
C11_SnakeWellFormed ==
    /\ Len(snake) >= 3
    /\ \A i, j \in 1 .. Len(snake) : i # j => snake[i] # snake[j]
    /\ \A i \in 1 .. Len(snake) - 1 : Adjacent(snake[i], snake[i + 1])
    /\ \A i \in 1 .. Len(snake) : snake[i] \in Cells

\* the game ended on a collision of a grown and turned snake
C11_Witness ==
    /\ state = "GAME_OVER" /\ pc = "key"
    /\ Len(snake) >= 4
    /\ snake[1][2] # snake[Len(snake)][2]

AheadOf(sn, d) == <<sn[1][1] + value(d)[1], sn[1][2] + value(d)[2]>>

Collides(c, sn) == c \notin Cells \/ \E i \in 1 .. Len(sn) : sn[i] = c

\* C12: an update() in PLAYING whose new head cell is outside the grid or on the
\* snake ends the game and leaves snake, food and score (and the pending
\* direction and the speed multiplier) as they were; GameState, high score,
\* committed direction and frame counter are the only fields that may change.
C12_CollisionFreezes ==
    [][(pc = "update" /\ state = "PLAYING") =>
          /\ Collides(AheadOf(snake, direction'), snake) <=> state' = "GAME_OVER"
          /\ (Collides(AheadOf(snake, direction'), snake) =>
                /\ snake' = snake /\ food' = food /\ score' = score
                /\ next_direction' = next_direction
                /\ speed_multiplier' = speed_multiplier
                /\ frame_count' = frame_count + 1
                /\ high_score' \in {high_score, score})]_vars

\* the game ended on the snake's own body with a score that raised the high score
C12_Witness ==
    /\ state = "GAME_OVER" /\ pc = "key"
    /\ AheadOf(snake, direction) \in Cells
    /\ Collides(AheadOf(snake, direction), snake)
    /\ score > 0 /\ high_score = score

\* C13: update_direction() and update() called while the GameState is MENU,
\* PAUSED or GAME_OVER change nothing of the game: snake, food, score, high
\* score, committed and pending direction, frame counter, speed multiplier and
\* GameState stay as they are, call after call.
C13_IdleCallsChangeNothing ==
    [][(pc \in {"direction", "update"} /\ state # "PLAYING") => game' = game]_vars

\* both calls ran in a paused game whose hand position would steer a playing one
C13_Witness ==
    /\ pc = "key" /\ state = "PAUSED"
    /\ tick_start.state = "PAUSED"
    /\ update_direction(SmoothedNow, "PLAYING", snake, next_direction) # next_direction

Max(a, b) == IF a >= b THEN a ELSE b

\* C14: the high score never decreases over any sequence of games, it changes
\* only on a step from PLAYING to GAME_OVER, and right after such a step with
\* final score S and prior high score H it is max(S, H).
C14_HighScoreMonotone ==
    [][/\ high_score' >= high_score
       /\ (high_score' # high_score => state = "PLAYING" /\ state' = "GAME_OVER")
       /\ ((state # "GAME_OVER" /\ state' = "GAME_OVER") =>
              high_score' = Max(score, high_score) /\ score' = score)]_vars

\* a later game ended below the high score an earlier game had set
C14_Witness ==
    /\ state = "GAME_OVER" /\ pc = "key"
    /\ tick_start.state = "PLAYING"
    /\ score < high_score

HandDx == SmoothedNow[1] - (snake[1][1] * GRID_SIZE + GRID_SIZE \div 2)
HandDy == SmoothedNow[2] - (snake[1][2] * GRID_SIZE + GRID_SIZE \div 2)

\* C15: with dx, dy the offset of the hand from the pixel centre of the head and
\* T the threshold, update_direction() in PLAYING leaves the pending direction
\* alone when max(|dx|, |dy|) <= T (T included); when it is >= T + 1 the pending
\* direction becomes RIGHT/LEFT by the sign of dx if |dx| > |dy|, otherwise
\* DOWN/UP by the sign of dy, ties |dx| = |dy| going to the vertical axis.
C15_IntentRule ==
    [][(pc = "direction" /\ state = "PLAYING" /\ position_history # <<>>) =>
          /\ (Max(abs(HandDx), abs(HandDy)) <= DIRECTION_THRESHOLD =>
                next_direction' = next_direction)
          /\ (Max(abs(HandDx), abs(HandDy)) >= DIRECTION_THRESHOLD + 1 =>
                /\ (abs(HandDx) > abs(HandDy) /\ HandDx > 0 => next_direction' = "RIGHT")
                /\ (abs(HandDx) > abs(HandDy) /\ HandDx < 0 => next_direction' = "LEFT")
                /\ (abs(HandDx) <= abs(HandDy) /\ HandDy > 0 => next_direction' = "DOWN")
                /\ (abs(HandDx) <= abs(HandDy) /\ HandDy < 0 => next_direction' = "UP"))]_vars

\* a tie at T + 1 on both axes has set a vertical pending direction
C15_Witness ==
    /\ pc = "update" /\ state = "PLAYING" /\ position_history # <<>>
    /\ abs(HandDx) = DIRECTION_THRESHOLD + 1
    /\ abs(HandDy) = DIRECTION_THRESHOLD + 1
    /\ direction = "RIGHT" /\ next_direction = "UP"

\* an offset of exactly T on the larger axis has left the pending direction alone
C15_ThresholdWitness ==
    /\ pc = "update" /\ state = "PLAYING" /\ position_history # <<>>
    /\ Max(abs(HandDx), abs(HandDy)) = DIRECTION_THRESHOLD
    /\ direction = "UP" /\ next_direction = "UP"

Min(a, b) == IF a <= b THEN a ELSE b

LastArrivals ==
    SubSeq(arrivals, Len(arrivals) - Min(Len(arrivals), GESTURE_SMOOTHING_WINDOW) + 1,
           Len(arrivals))

\* the mean of coordinate k of the sequence h, truncated to an integer
TruncatedMean(h, k) ==
    CHOOSE m \in 0 .. WEBCAM_WIDTH :
        m * Len(h) <= SumCoord(h, k) /\ SumCoord(h, k) < (m + 1) * Len(h)

\* C16: the position history never holds more than W positions; after n >= 1
\* detected positions it holds the last min(n, W) of them in arrival order and
\* the smoothed position is their component-wise mean truncated to an integer:
\* (0,0),(10,0),(20,0),(30,0),(40,0) gives (20,0), a sixth position (50,0)
\* gives (30,0); with an empty history the smoothed position is absent.
C16_SmoothedMean ==
    /\ Len(position_history) <= GESTURE_SMOOTHING_WINDOW
    /\ position_history = LastArrivals
    /\ (arrivals = <<>> => SmoothedNow = NONE)
    /\ (arrivals # <<>> =>
          SmoothedNow = <<TruncatedMean(LastArrivals, 1), TruncatedMean(LastArrivals, 2)>>)
    /\ (arrivals = <<<<0, 0>>, <<10, 0>>, <<20, 0>>, <<30, 0>>, <<40, 0>>>> =>
          SmoothedNow = <<20, 0>>)
    /\ (arrivals = <<<<0, 0>>, <<10, 0>>, <<20, 0>>, <<30, 0>>, <<40, 0>>, <<50, 0>>>> =>
          SmoothedNow = <<30, 0>>)

\* the sixth position of the example has evicted the first
C16_Witness ==
    /\ arrivals = <<<<0, 0>>, <<10, 0>>, <<20, 0>>, <<30, 0>>, <<40, 0>>, <<50, 0>>>>
    /\ position_history[1] = <<10, 0>>
    /\ pc = "key"

\* C17: the score is never negative, never decreases from one PLAYING state to
\* the next, changes in update() only by +FOOD_POINTS and only on a tick where
\* the new head cell is the food cell, and is 0 right after reset_game().
C17_ScoreSteps ==
    /\ [](score >= 0 /\ (pc = "start" => score = 0))
    /\ [][/\ ((state = "PLAYING" /\ state' = "PLAYING") => score' >= score)
          /\ ((pc = "update" /\ score' # score) =>
                /\ score' = score + FOOD_POINTS
                /\ AheadOf(snake, direction') = food
                /\ state = "PLAYING")
          /\ (score' # score => pc \in {"update", "spawn_reset"})]_vars

\* reset_game() has returned after a game in which the snake ate twice
C17_Witness ==
    /\ pc = "start" /\ score = 0
    /\ high_score = 2 * FOOD_POINTS

\* C18: reset_game() leaves a 3-cell horizontal snake with its head at
\* (cols \div 2, rows \div 2) followed by the two cells to its left, committed
\* and pending direction RIGHT, food not on the snake, score 0, speed
\* multiplier 1.0 and GameState MENU, and does not change the high score.
C18_ResetState ==
    /\ [](state = "MENU" =>
            /\ snake = << <<grid_cols \div 2, grid_rows \div 2>>,
                          <<grid_cols \div 2 - 1, grid_rows \div 2>>,
                          <<grid_cols \div 2 - 2, grid_rows \div 2>> >>
            /\ direction = "RIGHT" /\ next_direction = "RIGHT"
            /\ \A i \in 1 .. Len(snake) : snake[i] # food
            /\ food \in Cells
            /\ score = 0 /\ frame_count = 0
            /\ speed_multiplier = 100)
    /\ [][(pc = "spawn_reset" \/ pc' = "spawn_reset") =>
              /\ high_score' = high_score
              /\ state' \in {"GAME_OVER", "MENU"}
              /\ (pc' = "start" <=> state' = "MENU")]_vars

\* reset_game() has returned after a game that set a high score
C18_Witness ==
    /\ pc = "start" /\ state = "MENU"
    /\ tick_start.state = "GAME_OVER"
    /\ tick_start.score > 0 /\ tick_start.frame_count > 0
    /\ high_score = tick_start.score

FreeCells == {c \in Cells : \A i \in 1 .. Len(snake) : snake[i] # c}

\* C19: a _spawn_food call made while some cell is free returns, under fair
\* sampling, and the food it returns is a free cell; a call made when the
\* snake that has just eaten occupies every cell never returns; on a small
\* grid that call is reached from the reset state by legal moves.
C19_SpawnTermination ==
    /\ (InSpawn /\ FreeCells # {}) ~> (~InSpawn /\ food \in FreeCells)
    /\ [][(InSpawn /\ FreeCells = {}) => (pc' = pc /\ food' = food /\ snake' = snake)]_vars
    /\ [][(InSpawn /\ pc' # pc) => food' \in FreeCells]_vars

\* the snake ate the last free cell and _spawn_food was called
C19_Witness ==
    /\ pc = "spawn_update" /\ state = "PLAYING"
    /\ FreeCells = {}
    /\ Len(snake) = grid_cols * grid_rows

\* C20: a high-score file that cannot be loaded gives high score 0 at launch;
\* a game over whose save fails still completes the step to GAME_OVER with the
\* in-memory high score raised to the new score, and the loop goes on: no
\* outcome of load or save stops the program or changes the rest of the game.
C20_PersistenceFailuresHarmless ==
    /\ (high_score_file = UNREADABLE => high_score = 0)
    /\ [][(pc = "update" /\ state = "PLAYING" /\ Collides(AheadOf(snake, direction'), snake)) =>
              /\ state' = "GAME_OVER"
              /\ high_score' = Max(score, high_score)
              /\ pc' = "key" /\ running' = running
              /\ snake' = snake /\ food' = food /\ score' = score]_vars
    /\ [][high_score_file' # high_score_file =>
              (pc = "update" /\ state' = "GAME_OVER" /\ score > high_score)]_vars

\* the game ended with a new high score in memory that the file does not hold
C20_Witness ==
    /\ state = "GAME_OVER" /\ pc = "key"
    /\ tick_start.state = "PLAYING"
    /\ score > 0 /\ high_score = score
    /\ high_score_file # <<score>>

\* C21: self collision is tested against the body before the tail is removed:
\* an update() in PLAYING whose new head cell is the cell the tail occupies ends
\* the game with GAME_OVER and moves nothing, for a snake of length >= 4 that
\* turns onto its own tail.
C21_TailHitEndsGame ==
    [][(/\ pc = "update" /\ state = "PLAYING"
        /\ Len(snake) >= 4
        /\ AheadOf(snake, direction') = snake[Len(snake)]) =>
          /\ state' = "GAME_OVER"
          /\ snake' = snake]_vars

\* the game ended with the tail, and no other cell of the snake, ahead of the head
C21_Witness ==
    /\ state = "GAME_OVER" /\ pc = "key"
    /\ tick_start.state = "PLAYING"
    /\ Len(snake) >= 4
    /\ AheadOf(snake, direction) = snake[Len(snake)]
    /\ \A i \in 1 .. Len(snake) - 1 : snake[i] # AheadOf(snake, direction)

\* C22: the pause cooldown is an integer within 0..30 in every reachable state;
\* a tick that starts with cooldown > 0 lowers it by exactly 1, a tick that
\* starts at 0 and invokes no toggle (no fist) leaves it at 0, and nothing but
\* the pause block changes it.
C22_CooldownRange ==
    /\ [](pause_gesture_cooldown \in 0 .. PAUSE_COOLDOWN)
    /\ [][/\ ((pc = "pause" /\ pause_gesture_cooldown > 0) =>
                pause_gesture_cooldown' = pause_gesture_cooldown - 1)
          /\ ((pc = "pause" /\ pause_gesture_cooldown = 0 /\ ~toggled') =>
                pause_gesture_cooldown' = 0)
          /\ (pc # "pause" => pause_gesture_cooldown' = pause_gesture_cooldown)]_vars

\* the cooldown armed by a toggle has counted down to 0 again
C22_Witness ==
    /\ pc = "direction"
    /\ pause_gesture_cooldown = 0
    /\ ticks_since_toggle = PAUSE_COOLDOWN - 1

\* C23: in every state outside a running reset_game() call the score is
\* FOOD_POINTS * (len(snake) - 3): score and length grow together on an eating
\* tick and are restored together by reset_game(), over any sequence of ticks,
\* game overs and restarts.
C23_ScoreIsLength ==
    pc # "spawn_reset" => score = FOOD_POINTS * (Len(snake) - 3)

\* a restarted game has eaten once, after a game that had eaten twice
C23_Witness ==
    /\ pc = "key" /\ state = "PLAYING"
    /\ Len(snake) = 4 /\ score = FOOD_POINTS
    /\ high_score = 2 * FOOD_POINTS

\* some hand position inside the camera frame makes update_direction set d,
\* whatever the pending direction was
Requestable(d) ==
    \E x \in 0 .. WEBCAM_WIDTH - 1 : \E y \in 0 .. WEBCAM_HEIGHT - 1 :
        update_direction(<<x, y>>, "PLAYING", snake, Opposite(d)) = d

\* C24: for every head cell of the 40 x 30 grid and every direction D there is
\* a hand position inside the 640 x 480 camera frame for which update_direction
\* sets the pending direction to D.
C24_EveryDirectionEverywhere ==
    state = "PLAYING" => \A d \in Direction : Requestable(d)

ArmedIdle == armed_in \in {"MENU", "GAME_OVER"}

\* C25: a fist met with cooldown 0 while the game is in MENU or GAME_OVER
\* leaves the GameState as it is and still arms the cooldown with the full
\* window (30, counted down to 29 within the same tick); in each of the 29
\* ticks that follow no fist invokes a toggle or changes the GameState, also
\* when SPACE has started the game in the meantime.
C25_IdleFistArmsCooldown ==
    /\ [][(pc = "pause" /\ toggled' /\ state \in {"MENU", "GAME_OVER"}) =>
              /\ pause_gesture_cooldown = 0
              /\ state' = state
              /\ pause_gesture_cooldown' = PAUSE_COOLDOWN - 1]_vars
    /\ [][(pc = "pause" /\ ArmedIdle /\ ticks_since_toggle \in 1 .. PAUSE_COOLDOWN - 1) =>
              /\ pause_gesture_cooldown = PAUSE_COOLDOWN - ticks_since_toggle
              /\ ~toggled'
              /\ state' = state]_vars
    /\ []((ArmedIdle /\ ticks_since_toggle < PAUSE_COOLDOWN) => state # "PAUSED")

\* a game started by SPACE is PLAYING and moving inside the window that a fist
\* in MENU armed
C25_Witness ==
    /\ pc = "key" /\ state = "PLAYING" /\ frame_count > 0
    /\ armed_in = "MENU"
    /\ ticks_since_toggle \in 1 .. PAUSE_COOLDOWN - 1
    /\ pause_gesture_cooldown > 0

\* the same with the fist shown in GAME_OVER and the game restarted by SPACE
C25_GameOverWitness ==
    /\ pc = "key" /\ state = "PLAYING" /\ frame_count > 0
    /\ armed_in = "GAME_OVER"
    /\ ticks_since_toggle \in 1 .. PAUSE_COOLDOWN - 1

HeadMinusNeck == <<snake[1][1] - snake[2][1], snake[1][2] - snake[2][2]>>

UnitDelta(d) ==
    IF d = "UP" THEN <<0, -1>>
    ELSE IF d = "DOWN" THEN <<0, 1>>
    ELSE IF d = "LEFT" THEN <<-1, 0>>
    ELSE <<1, 0>>

\* C26: in every state whose GameState is MENU, PLAYING or PAUSED the unit
\* delta of the committed direction is head cell minus second cell, so the
\* neck is the cell opposite to the committed direction and no update() puts
\* the new head on the neck.
C26_DirectionIsHeadMinusNeck ==
    /\ [](state \in {"MENU", "PLAYING", "PAUSED"} => UnitDelta(direction) = HeadMinusNeck)
    /\ [][(pc = "update" /\ state = "PLAYING") =>
              <<snake[1][1] + UnitDelta(direction')[1],
                snake[1][2] + UnitDelta(direction')[2]>> # snake[2]]_vars

\* a game that turned twice is paused
C26_Witness ==
    /\ state = "PAUSED" /\ pc = "key"
    /\ frame_count >= 2
    /\ direction = "LEFT"

\* an update() ran with the reverse of the committed direction pending
C26_ReverseWitness ==
    /\ pc = "key" /\ tick_start.state = "PLAYING"
    /\ frame_count = tick_start.frame_count + 1
    /\ next_direction = Opposite(direction)

====
